---- MODULE Spec2Model ----
(***************************************************************************)
(* A model of xknxproject: the container decoder (zip/extractor.py), the   *)
(* project loader (loader/project_loader.py) and the output builder        *)
(* (xml/parser.py).                                                        *)
(*                                                                         *)
(* Strings the code takes apart (archive entry names, link attributes,     *)
(* prefixed identifiers, numeric addresses) are sequences of tokens, so    *)
(* that startswith / endswith / removesuffix / split / int are computed.   *)
(* Strings the code only stores or compares are TLA+ strings.              *)
(***************************************************************************)
EXTENDS Integers, Sequences, FiniteSets, TLC

VARIABLES
    \* ---- decoder session (zip/extractor.py, ProjectLoader.load's streams)
    entries,      \* zip_archive.infolist(): entry names of the outer archive
    dialect,      \* how the nested <project-id>.zip was encrypted by the tool
    master,       \* knx_master.xml, per line: does it hold the version marker
    docState,     \* well-formedness of the two documents of the project
    password,     \* the password argument of extract()
    pc,           \* position of the consumer / the extract() generator
    session,      \* the KNXProjContents the consumer holds
    projectId,    \* project_id of extract()
    open,         \* archives and streams acquired and not closed
    pathsTried,   \* key-derivation paths taken, in order
    archivePwd,   \* what setpassword() was given
    pending,      \* exception in flight in the consumer body
    outcome,      \* how the with-statement over extract() ended
    opened,       \* streams the consumer opened: <<archive, entry name>>
    streamsRead,  \* documents the consumer read to the end
    \* ---- project pipeline (ProjectLoader.load, XMLParser.parse)
    isEts4,       \* knx_proj_contents.is_ets4_project()
    document,     \* the Installation element of 0.xml
    stage,        \* "input", "loaded", "parsed" or "failed"
    loaded,       \* what ProjectLoader.load returned
    error,        \* the exception that ended the pipeline
    project,      \* the KNXProject of XMLParser.parse
    hardware,     \* products_dict and hardware_application_map of XMLParser.load
    warnings,     \* what XMLParser.load logged with _LOGGER.warning
    \* ---- one com-object written in both link dialects
    comObjectEts4, \* the element with Connectors/Send/Receive children
    comObjectEts5, \* the element with the Links attribute
    instanceEts4,  \* _create_com_object_instance of the former
    instanceEts5,  \* _create_com_object_instance of the latter
    \* ---- one Function element
    functionNode,  \* the Function element
    parsedFunction \* parse_functions of it

sessionVars == <<entries, dialect, master, docState, password, pc, session,
                 projectId, open, pathsTried, archivePwd, pending, outcome,
                 opened, streamsRead>>

projectVars == <<isEts4, document, stage, loaded, error, project, hardware,
                 warnings>>

linkVars == <<comObjectEts4, comObjectEts5, instanceEts4, instanceEts5,
              functionNode, parsedFunction>>

vars == <<sessionVars, projectVars, linkVars>>

(***************************************************************************)
(* Bounds                                                                  *)
(***************************************************************************)
MaxEntries == 3

MaxDevices == 2

MaxComObjects == 2

MaxFunctions == 1

MaxRefs == 2

MaxLinks == 2

MaxIdLen == 3

MaxDepth == 3

MaxSpaces == 2

(***************************************************************************)
(* Strings as token sequences                                              *)
(***************************************************************************)
StartsWith(s, p) == Len(s) >= Len(p) /\ SubSeq(s, 1, Len(p)) = p

EndsWith(s, p) == Len(s) >= Len(p) /\ SubSeq(s, Len(s) - Len(p) + 1, Len(s)) = p

RemoveSuffix(s, p) == IF EndsWith(s, p) THEN SubSeq(s, 1, Len(s) - Len(p)) ELSE s

\* password: str | None.  None is the value Absent; "not password" is Python's
\* truth test, false for None and for the empty string.
Absent == "None"

Truthy(pw) == pw /= Absent /\ pw /= ""

(***************************************************************************)
(* The containers the decoder is given                                     *)
(***************************************************************************)
EntryNames ==
    { <<"P-", "1", ".signature">>, <<"P-", "2", ".signature">>,
      <<"Q-", "1", ".signature">>,
      <<"P-", "1", ".zip">>, <<"P-", "2", ".zip">> }

RECURSIVE SeqsUpTo(_, _)
SeqsUpTo(S, n) ==
    IF n = 0 THEN { <<>> }
    ELSE LET shorter == SeqsUpTo(S, n - 1)
         IN  shorter \cup { Append(s, x) : s \in shorter, x \in S }

Archives == SeqsUpTo(EntryNames, MaxEntries)

\* The password the authoring tool protected the project with.
TruePassword == "secret"

Passwords == { Absent, "", TruePassword, "guess" }

\* First lines of knx_master.xml: an ETS6 export carries the schema marker in
\* the XML declaration's line or in the root element's line, older exports
\* nowhere.
MasterHeaders(d) ==
    IF d = "ets6"
    THEN { <<TRUE, FALSE, FALSE>>, <<FALSE, TRUE, FALSE>> }
    ELSE { <<FALSE, FALSE, FALSE>> }

DocStates == { "good", "bad0", "badmeta" }

(***************************************************************************)
(* zip/extractor.py                                                        *)
(***************************************************************************)
NoSession == [root |-> "none", project_archive |-> "none",
              project_relative_path |-> <<>>]

KNXProjContents(root_zip, project_archive, project_relative_path) ==
    [root |-> root_zip, project_archive |-> project_archive,
     project_relative_path |-> project_relative_path]

IsSignature_SuffixOnly(filename) == EndsWith(filename, <<".signature">>)

IsSignature(filename) ==
    StartsWith(filename, <<"P-">>) /\ EndsWith(filename, <<".signature">>)

RECURSIVE _get_project_id_from(_, _)
_get_project_id_from(infolist, i) ==
    IF i > Len(infolist) THEN [found |-> FALSE, id |-> <<>>]
    ELSE IF IsSignature(infolist[i])
         THEN [found |-> TRUE, id |-> RemoveSuffix(infolist[i], <<".signature">>)]
         ELSE _get_project_id_from(infolist, i + 1)

_get_project_id(infolist) == _get_project_id_from(infolist, 1)

\* zip_archive.getinfo(name) raises KeyError unless an entry has that name.
HasEntry(infolist, name) == \E i \in 1..Len(infolist) : infolist[i] = name

PasswordProtected_AnyZip(infolist, project_id) ==
    \E i \in 1..Len(infolist) : EndsWith(infolist[i], <<".zip">>)

PasswordProtected(infolist, project_id) ==
    HasEntry(infolist, project_id \o <<".zip">>)

_is_ets6_project_FirstLine(lines) == lines[1]

\* [next(master) for _ in range(2)], then the marker is looked for in both.
_is_ets6_project(lines) == \E i \in 1..2 : lines[i]

_generate_ets6_zip_password_Utf8(pw) ==
    IF ~Truthy(pw) THEN <<"bytes", "">>
    ELSE <<"base64", "pbkdf2-hmac-sha256", "utf-8", pw>>

_generate_ets6_zip_password(pw) ==
    IF ~Truthy(pw) THEN <<"bytes", "">>
    ELSE <<"base64", "pbkdf2-hmac-sha256", "utf-16-le", pw>>

LegacyZipPassword(pw) == <<"utf-8", pw>>

\* The key-derivation path of _extract_protected_project_file.
KeyPath(lines) == IF _is_ets6_project(lines) THEN "ets6" ELSE "legacy"

ZipPassword(path, pw) ==
    IF path = "ets6" THEN _generate_ets6_zip_password(pw)
    ELSE LegacyZipPassword(pw)

\* The key the entries of the nested archive were encrypted under.
ContainerKey(d) ==
    IF d = "ets6"
    THEN <<"base64", "pbkdf2-hmac-sha256", "utf-16-le", TruePassword>>
    ELSE <<"utf-8", TruePassword>>

\* ZipFile.open / AESZipFile.open of an encrypted entry: RuntimeError
\* ("Bad password for file") unless the archive's password is the key.
OpenRaises(archive, pwd, d) == archive = "inner" /\ pwd /= ContainerKey(d)

\* The except clauses at the yield of _extract_protected_project_file map
\* RuntimeError to InvalidPasswordException; the unprotected branch of
\* extract() has no handler.
ErrorAtYield(project_archive, exc) ==
    IF project_archive = "inner" /\ exc = "RuntimeError"
    THEN "InvalidPassword" ELSE exc

\* What is still open once the generator of extract() has finished: the
\* with-statement closes zip_archive; the stream of the nested entry and the
\* project archive built on it are closed by nobody.
AfterExtractExit(res) == res \ {"outer"}

(***************************************************************************)
(* Decoder session: extract().__enter__                                    *)
(***************************************************************************)
ExtractEnter ==
    /\ pc = "start"
    /\ LET got == _get_project_id(entries)
           pid == got.id
           path == KeyPath(master)
       IN
       IF ~got.found
       THEN /\ outcome' = "ProjectNotFound"
            /\ pc' = "done"
            /\ open' = AfterExtractExit({"outer"})
            /\ UNCHANGED <<session, projectId, pathsTried, archivePwd>>
       ELSE IF ~PasswordProtected(entries, pid)
       THEN /\ session' = KNXProjContents("outer", "outer", pid \o <<"/">>)
            /\ projectId' = pid
            /\ pc' = "held"
            /\ open' = {"outer"}
            /\ UNCHANGED <<outcome, pathsTried, archivePwd>>
       ELSE IF ~Truthy(password)
       THEN /\ outcome' = "InvalidPassword"
            /\ projectId' = pid
            /\ pc' = "done"
            /\ open' = AfterExtractExit({"outer"})
            /\ UNCHANGED <<session, pathsTried, archivePwd>>
       ELSE /\ session' = KNXProjContents("outer", "inner", <<>>)
            /\ projectId' = pid
            /\ pathsTried' = Append(pathsTried, path)
            /\ archivePwd' = ZipPassword(path, password)
            /\ pc' = "held"
            /\ open' = {"outer", "nested_entry", "inner"}
            /\ UNCHANGED outcome
    /\ UNCHANGED <<entries, dialect, master, docState, password, pending,
                   opened, streamsRead>>
    /\ UNCHANGED <<projectVars, linkVars>>

(***************************************************************************)
(* The consumer: ProjectLoader.load's use of the two document streams      *)
(***************************************************************************)
DocumentName(s, doc) == s.project_relative_path \o <<doc>>

OpenDocument(doc, res, from, to) ==
    /\ pc = from
    /\ IF OpenRaises(session.project_archive, archivePwd, dialect)
       THEN /\ pending' = "RuntimeError"
            /\ pc' = "raised"
            /\ UNCHANGED <<open, opened>>
       ELSE /\ open' = open \cup {res}
            /\ opened' = Append(opened, <<session.project_archive,
                                          DocumentName(session, doc)>>)
            /\ pc' = to
            /\ UNCHANGED pending
    /\ UNCHANGED <<entries, dialect, master, docState, password, session,
                   projectId, pathsTried, archivePwd, outcome, streamsRead>>
    /\ UNCHANGED <<projectVars, linkVars>>

\* ElementTree.parse inside the with-statement over the stream: the stream is
\* closed on the way out, whether parse returned or raised ParseError.
ParseDocument(doc, res, bad, from, to) ==
    /\ pc = from
    /\ open' = open \ {res}
    /\ IF docState = bad
       THEN /\ pending' = "ParseError"
            /\ pc' = "raised"
            /\ UNCHANGED streamsRead
       ELSE /\ streamsRead' = streamsRead \cup {doc}
            /\ pc' = to
            /\ UNCHANGED pending
    /\ UNCHANGED <<entries, dialect, master, docState, password, session,
                   projectId, pathsTried, archivePwd, outcome, opened>>
    /\ UNCHANGED <<projectVars, linkVars>>

OpenProject0 == OpenDocument("0.xml", "doc0", "held", "doc0_open")

ParseProject0 == ParseDocument("0.xml", "doc0", "bad0", "doc0_open", "doc0_done")

OpenProjectMeta == OpenDocument("project.xml", "meta", "doc0_done", "meta_open")

ParseProjectMeta ==
    ParseDocument("project.xml", "meta", "badmeta", "meta_open", "loaded")

(***************************************************************************)
(* Decoder session: extract().__exit__                                     *)
(***************************************************************************)
ExtractExit ==
    /\ pc \in {"loaded", "raised"}
    /\ outcome' = IF pc = "loaded" THEN "ok"
                  ELSE ErrorAtYield(session.project_archive, pending)
    /\ open' = AfterExtractExit(open)
    /\ pending' = "none"
    /\ pc' = "done"
    /\ UNCHANGED <<entries, dialect, master, docState, password, session,
                   projectId, pathsTried, archivePwd, opened, streamsRead>>
    /\ UNCHANGED <<projectVars, linkVars>>

\* The parts of the state a specification does not exercise.
SessionIdle ==
    /\ entries = <<>>
    /\ dialect = "legacy"
    /\ master = <<FALSE, FALSE, FALSE>>
    /\ docState = "good"
    /\ password = Absent
    /\ pc = "idle"
    /\ session = NoSession
    /\ projectId = <<>>
    /\ open = {}
    /\ pathsTried = <<>>
    /\ archivePwd = <<>>
    /\ pending = "none"
    /\ outcome = "none"
    /\ opened = <<>>
    /\ streamsRead = {}

NothingLoaded ==
    [group_addresses |-> <<>>, areas |-> <<>>, devices |-> <<>>,
     spaces |-> <<>>, functions |-> <<>>]

NoProject ==
    [communication_objects |-> <<>>, topology |-> <<>>, devices |-> <<>>,
     group_addresses |-> <<>>, locations |-> <<>>]

Element(tag, children) == [tag |-> tag, children |-> children]

\* An archive without hardware files: HardwareLoader finds nothing.
NoHardwareFiles == [products |-> <<>>, hardware_programs |-> <<>>]

ProjectIdle ==
    /\ isEts4 = FALSE
    /\ document = Element("Installation", <<>>)
    /\ stage = "idle"
    /\ loaded = NothingLoaded
    /\ error = "none"
    /\ project = NoProject
    /\ hardware = NoHardwareFiles
    /\ warnings = <<>>

NotRun == [err |-> "not-run", keep |-> FALSE, val |-> <<>>]

NoFunction ==
    /\ functionNode = Element("Function", <<>>)
    /\ parsedFunction = NotRun

NoComObject ==
    /\ comObjectEts4 = Element("ComObjectInstanceRef", <<>>)
    /\ comObjectEts5 = Element("ComObjectInstanceRef", <<>>)
    /\ instanceEts4 = NotRun
    /\ instanceEts5 = NotRun

LinksIdle == NoComObject /\ NoFunction

Init ==
    /\ entries \in Archives
    /\ dialect \in {"legacy", "ets6"}
    /\ master \in MasterHeaders(dialect)
    /\ docState \in DocStates
    /\ password \in Passwords
    /\ pc = "start"
    /\ session = NoSession
    /\ projectId = <<>>
    /\ open = {}
    /\ pathsTried = <<>>
    /\ archivePwd = <<>>
    /\ pending = "none"
    /\ outcome = "none"
    /\ opened = <<>>
    /\ streamsRead = {}
    /\ ProjectIdle
    /\ LinksIdle

Next ==
    \/ ExtractEnter
    \/ OpenProject0
    \/ ParseProject0
    \/ OpenProjectMeta
    \/ ParseProjectMeta
    \/ ExtractExit

Spec == Init /\ [][Next]_vars

(***************************************************************************)
(* XML elements (xml.etree.ElementTree).  An element is a record with the  *)
(* fields tag (local name) and children (in document order) and one field  *)
(* per attribute it carries.                                               *)
(***************************************************************************)
HasAttr(e, a) == a \in DOMAIN e

\* Element.get(a, default)
Get(e, a, default) == IF HasAttr(e, a) THEN e[a] ELSE default

\* Element.findall("{*}tag"): the children with that local name, in order.
FindAll(e, tag) == SelectSeq(e.children, LAMBDA c : c.tag = tag)

\* Element.findall(".//{*}tag"): the descendants with that local name, in
\* document order.
RECURSIVE DescendantsIn(_, _)
DescendantsIn(nodes, tag) ==
    IF nodes = <<>> THEN <<>>
    ELSE (IF nodes[1].tag = tag THEN <<nodes[1]>> ELSE <<>>)
         \o DescendantsIn(nodes[1].children, tag)
         \o DescendantsIn(Tail(nodes), tag)

(***************************************************************************)
(* Python values: results that may be exceptions, str.split, int, dict     *)
(***************************************************************************)
\* F applied to the value of v, v being evaluated once (a local variable).
With(v, F(_)) == CHOOSE y \in { F(x) : x \in {v} } : TRUE

Ok(v) == [err |-> "none", val |-> v]

Raise(e) == [err |-> e, val |-> <<>>]

\* F applied to the value of a call that returned, the call's exception
\* otherwise.
Try(r, F(_)) ==
    With(r, LAMBDA x : IF x.err /= "none" THEN Raise(x.err) ELSE F(x.val))

\* A loop that appends Item(s[i]) to a list for i = from, from + 1, ... and
\* stops at the first exception.  Item returns [err, keep, val]; an item
\* with keep FALSE is skipped.
RECURSIVE Collect(_, _, _, _)
Collect(Item(_), s, from, acc) ==
    IF from > Len(s) THEN Ok(acc)
    ELSE With(With(s[from], Item),
              LAMBDA r : IF r.err /= "none" THEN Raise(r.err)
                         ELSE With(IF r.keep THEN Append(acc, r.val) ELSE acc,
                                   LAMBDA acc2 : Collect(Item, s, from + 1, acc2)))

\* A call whose value, when it returns, is always appended.
Kept(r) == With(r, LAMBDA x : [err |-> x.err, keep |-> x.err = "none", val |-> x.val])

Dropped == [err |-> "none", keep |-> FALSE, val |-> <<>>]

\* str.split(sep) for a one-character separator.
RECURSIVE SplitFrom(_, _, _, _, _)
SplitFrom(s, sep, i, cur, acc) ==
    IF i > Len(s) THEN Append(acc, cur)
    ELSE IF s[i] = sep
         THEN With(Append(acc, cur), LAMBDA acc2 : SplitFrom(s, sep, i + 1, <<>>, acc2))
         ELSE With(Append(cur, s[i]), LAMBDA cur2 : SplitFrom(s, sep, i + 1, cur2, acc))

Split(s, sep) == SplitFrom(s, sep, 1, <<>>, <<>>)

\* s.split("_")[1]: the second field, IndexError when there is none.
SecondField(s) ==
    With(Split(s, "_"),
         LAMBDA parts : IF Len(parts) < 2 THEN Raise("IndexError") ELSE Ok(parts[2]))

DigitChars == <<"0", "1", "2", "3", "4", "5", "6", "7", "8", "9">>

IsDigit(c) == \E i \in 1..Len(DigitChars) : DigitChars[i] = c

DigitValue(c) == (CHOOSE i \in 1..Len(DigitChars) : DigitChars[i] = c) - 1

RECURSIVE IntFrom(_, _, _)
IntFrom(s, i, acc) ==
    IF i > Len(s) THEN acc
    ELSE With(acc * Len(DigitChars) + DigitValue(s[i]),
              LAMBDA acc2 : IntFrom(s, i + 1, acc2))

\* int(s) of a string: ValueError for the empty string and for non-digits.
PyInt(s) ==
    IF s = <<>> \/ \E i \in 1..Len(s) : ~IsDigit(s[i])
    THEN Raise("ValueError")
    ELSE Ok(IntFrom(s, 1, 0))

\* A dict, in insertion order: a sequence of <<key, value>>.
DictHas(d, k) == \E i \in 1..Len(d) : d[i][1] = k

DictGet(d, k) == d[CHOOSE i \in 1..Len(d) : d[i][1] = k][2]

DictSet(d, k, v) ==
    IF DictHas(d, k)
    THEN [i \in 1..Len(d) |-> IF d[i][1] = k THEN <<k, v>> ELSE d[i]]
    ELSE Append(d, <<k, v>>)

DictKeys(d) == [i \in 1..Len(d) |-> d[i][1]]

Contains(seq, x) == \E i \in 1..Len(seq) : seq[i] = x

\* The concatenation of a sequence of lists (repeated list.extend).
RECURSIVE FlattenFrom(_, _, _)
FlattenFrom(seqs, i, acc) ==
    IF i > Len(seqs) THEN acc
    ELSE With(acc \o seqs[i], LAMBDA acc2 : FlattenFrom(seqs, i + 1, acc2))

Flatten(seqs) == FlattenFrom(seqs, 1, <<>>)

(***************************************************************************)
(* loader/project_loader.py: group addresses                               *)
(***************************************************************************)
\* _GroupAddressLoader.load
XMLGroupAddress(e) ==
    [name |-> Get(e, "Name", ""),
     identifier |-> Get(e, "Id", <<>>),
     address |-> Get(e, "Address", <<>>),
     description |-> Get(e, "Description", "")]

\* tree.findall(".../{*}GroupAddresses//{*}GroupAddress"), installation being
\* the Installation element of 0.xml.
LoadGroupAddresses(installation) ==
    With(FindAll(installation, "GroupAddresses"),
         LAMBDA sections :
            With(Flatten([i \in 1..Len(sections) |->
                             DescendantsIn(sections[i].children, "GroupAddress")]),
                 LAMBDA found : [i \in 1..Len(found) |-> XMLGroupAddress(found[i])]))

(***************************************************************************)
(* loader/project_loader.py: topology                                      *)
(***************************************************************************)
\* Remove the project ID from GA: ga.get("GroupAddressRefId", "").split("_")[1]
StripProjectId(ga) == Kept(SecondField(Get(ga, "GroupAddressRefId", <<>>)))

\* _TopologyLoader.__get_links_from_ets4
get_links_from_ets4(com_object) ==
    With(FindAll(com_object, "Connectors"),
         LAMBDA connectors :
            IF connectors = <<>> THEN Ok(<<>>)
            ELSE Collect(StripProjectId,
                         FindAll(connectors[1], "Send")
                             \o FindAll(connectors[1], "Receive"),
                         1, <<>>))

\* _TopologyLoader.__get_links_from_ets5
get_links_from_ets5(com_object) ==
    IF ~HasAttr(com_object, "Links") THEN Ok(<<>>)
    ELSE Ok(Split(com_object.Links, " "))

\* The ComObjectInstanceRef built from an element and its links.
ComObjectInstanceRef(com_object, links) ==
    [identifier |-> Get(com_object, "Id", ""),
     ref_id |-> Get(com_object, "RefId", ""),
     text |-> Get(com_object, "Text", ""),
     com_object_ref_id |-> <<>>,
     links |-> links]

\* _TopologyLoader._create_com_object_instance: keep is FALSE for None.
_create_com_object_instance(ets4, com_object) ==
    With(IF ets4 THEN get_links_from_ets4(com_object)
         ELSE get_links_from_ets5(com_object),
         LAMBDA links :
            IF links.err /= "none"
            THEN [err |-> links.err, keep |-> FALSE, val |-> <<>>]
            ELSE IF links.val = <<>> THEN Dropped
            ELSE [err |-> "none", keep |-> TRUE,
                  val |-> ComObjectInstanceRef(com_object, links.val)])

\* DeviceInstance.individual_address: "<area>.<line>.<device address>".
IndividualAddress(area_address, line_address, address) ==
    <<area_address, line_address, address>>

\* The loop over an AdditionalAddresses node of _create_device.
AdditionalAddresses(sub_node) ==
    With(SelectSeq(sub_node.children, LAMBDA n : Get(n, "Address", <<>>) /= <<>>),
         LAMBDA with_address :
            [i \in 1..Len(with_address) |-> with_address[i].Address])

\* The loop over the sub-nodes of a device element; device is the
\* DeviceInstance being filled.
RECURSIVE DeviceSubNodes(_, _, _, _)
DeviceSubNodes(ets4, nodes, i, device) ==
    IF i > Len(nodes) THEN Ok(device)
    ELSE With(IF nodes[i].tag = "AdditionalAddresses"
              THEN [device EXCEPT !.additional_addresses =
                                      @ \o AdditionalAddresses(nodes[i])]
              ELSE device,
              LAMBDA d1 :
                 Try(IF nodes[i].tag = "ComObjectInstanceRefs"
                     THEN Collect(LAMBDA c : _create_com_object_instance(ets4, c),
                                  nodes[i].children, 1, <<>>)
                     ELSE Ok(<<>>),
                     LAMBDA objs :
                        With([d1 EXCEPT !.com_object_instance_refs = @ \o objs],
                             LAMBDA d2 : DeviceSubNodes(ets4, nodes, i + 1, d2))))

\* The DeviceInstance as its constructor leaves it.
DeviceInstance(device_element, address, area_address, line_address) ==
    [identifier |-> Get(device_element, "Id", ""),
     address |-> address,
     individual_address |-> IndividualAddress(area_address, line_address, address),
     name |-> Get(device_element, "Name", ""),
     description |-> Get(device_element, "Description", ""),
     product_ref |-> Get(device_element, "ProductRefId", ""),
     hardware_program_ref |-> Get(device_element, "Hardware2ProgramRefId", ""),
     line |-> <<area_address, line_address>>,
     additional_addresses |-> <<>>,
     com_object_instance_refs |-> <<>>,
     product_name |-> "",
     hardware_name |-> "",
     application_program_ref |-> ""]

_create_device_KeepUnaddressed(ets4, device_element, area_address, line_address) ==
    Kept(DeviceSubNodes(ets4, device_element.children, 1,
                        DeviceInstance(device_element,
                                       Get(device_element, "Address", <<>>),
                                       area_address, line_address)))

\* _TopologyLoader._create_device: keep is FALSE for None.
_create_device(ets4, device_element, area_address, line_address) ==
    IF ~HasAttr(device_element, "Address") THEN Dropped
    ELSE Kept(DeviceSubNodes(ets4, device_element.children, 1,
                             DeviceInstance(device_element, device_element.Address,
                                            area_address, line_address)))

\* _TopologyLoader._create_line
_create_line(ets4, line_element, area_address) ==
    Try(PyInt(Get(line_element, "Address", <<>>)),
        LAMBDA address :
           Try(Collect(LAMBDA e : _create_device(ets4, e, area_address, address),
                       DescendantsIn(line_element.children, "DeviceInstance"),
                       1, <<>>),
               LAMBDA devices :
                  With(FindAll(line_element, "Segment"),
                       LAMBDA segments :
                          Ok([address |-> address,
                              name |-> Get(line_element, "Name", ""),
                              description |-> Get(line_element, "Description", Absent),
                              medium_type |->
                                  IF segments /= <<>>
                                  THEN Get(segments[1], "MediumTypeRefId", "")
                                  ELSE Get(line_element, "MediumTypeRefId", ""),
                              devices |-> devices]))))

\* _TopologyLoader._create_area
_create_area(ets4, area_element) ==
    Try(PyInt(Get(area_element, "Address", <<>>)),
        LAMBDA address :
           Try(Collect(LAMBDA e : Kept(_create_line(ets4, e, address)),
                       area_element.children, 1, <<>>),
               LAMBDA lines :
                  Ok([address |-> address,
                      name |-> Get(area_element, "Name", ""),
                      description |-> Get(area_element, "Description", Absent),
                      lines |-> lines])))

\* _TopologyLoader.load over every Topology element of the installation.
LoadTopology(ets4, installation) ==
    With(FindAll(installation, "Topology"),
         LAMBDA topologies :
            Collect(LAMBDA e : Kept(_create_area(ets4, e)),
                    Flatten([i \in 1..Len(topologies) |->
                                FindAll(topologies[i], "Area")]),
                    1, <<>>))

\* devices.extend(line.devices) for every line of every area.
DevicesOf(areas) ==
    Flatten([a \in 1..Len(areas) |->
                Flatten([l \in 1..Len(areas[a].lines) |->
                            areas[a].lines[l].devices])])

(***************************************************************************)
(* loader/project_loader.py: locations and functions                       *)
(***************************************************************************)
\* One sub-node of a Function element: a GroupAddressRef gives an
\* XMLGroupAddressRef, anything else is passed over.
FunctionRef(sub_node) ==
    IF sub_node.tag /= "GroupAddressRef" THEN Dropped
    ELSE Kept(Try(SecondField(Get(sub_node, "RefId", <<>>)),
                  LAMBDA ref_id :
                     Ok([ref_id |-> ref_id,
                         identifier |-> Get(sub_node, "Id", ""),
                         name |-> Get(sub_node, "Name", ""),
                         role |-> Get(sub_node, "Role", ""),
                         address |-> <<>>])))

\* _LocationLoader.parse_functions
parse_functions(node) ==
    Try(SecondField(Get(node, "Id", <<>>)),
        LAMBDA identifier :
           Try(Collect(FunctionRef, node.children, 1, <<>>),
               LAMBDA refs :
                  Ok([identifier |-> identifier,
                      name |-> Get(node, "Name", ""),
                      function_type |-> Get(node, "Type", ""),
                      group_addresses |-> refs,
                      usage_text |-> <<>>,
                      space_id |-> ""])))

\* The XMLSpace of a node before its sub-nodes are looked at.
XMLSpace(node) ==
    [identifier |-> Get(node, "Id", ""),
     name |-> Get(node, "Name", ""),
     space_type |-> Get(node, "Type", ""),
     number |-> Get(node, "Number", ""),
     description |-> Get(node, "Description", ""),
     spaces |-> <<>>,
     devices |-> <<>>,
     functions |-> <<>>]

\* _LocationLoader.parse_space and its loop over the sub-nodes.  A result's
\* val is [space, functions]: the space and the shared list of functions.
RECURSIVE parse_space(_, _, _, _)
RECURSIVE SpaceSubNodes(_, _, _, _, _, _)
SpaceSubNodes(element_name, device_table, nodes, i, space, functions) ==
    IF i > Len(nodes) THEN Ok([space |-> space, functions |-> functions])
    ELSE IF nodes[i].tag = element_name
    THEN Try(parse_space(element_name, device_table, nodes[i], functions),
             LAMBDA sub :
                With([space EXCEPT !.spaces = Append(@, sub.space)],
                     LAMBDA space2 :
                        SpaceSubNodes(element_name, device_table, nodes, i + 1,
                                      space2, sub.functions)))
    ELSE IF nodes[i].tag = "DeviceInstanceRef"
    THEN With(IF DictHas(device_table, Get(nodes[i], "RefId", ""))
              THEN [space EXCEPT !.devices =
                       Append(@, DictGet(device_table, Get(nodes[i], "RefId", "")))]
              ELSE space,
              LAMBDA space2 :
                 SpaceSubNodes(element_name, device_table, nodes, i + 1,
                               space2, functions))
    ELSE IF nodes[i].tag = "Function"
    THEN Try(parse_functions(nodes[i]),
             LAMBDA f :
                With([space EXCEPT !.functions = Append(@, f.identifier)],
                     LAMBDA space2 :
                        With(Append(functions,
                                    [f EXCEPT !.space_id = space.identifier]),
                             LAMBDA functions2 :
                                SpaceSubNodes(element_name, device_table, nodes,
                                              i + 1, space2, functions2))))
    ELSE SpaceSubNodes(element_name, device_table, nodes, i + 1, space, functions)

parse_space(element_name, device_table, node, functions) ==
    With(XMLSpace(node),
         LAMBDA space :
            SpaceSubNodes(element_name, device_table, node.children, 1,
                          space, functions))

\* The list comprehension of _LocationLoader.load, over the spaces of every
\* location element; val is [spaces, functions].
RECURSIVE ParseSpaces(_, _, _, _, _, _)
ParseSpaces(element_name, device_table, nodes, i, spaces, functions) ==
    IF i > Len(nodes) THEN Ok([spaces |-> spaces, functions |-> functions])
    ELSE Try(parse_space(element_name, device_table, nodes[i], functions),
             LAMBDA r :
                With(Append(spaces, r.space),
                     LAMBDA spaces2 :
                        ParseSpaces(element_name, device_table, nodes, i + 1,
                                    spaces2, r.functions)))

\* _LocationLoader.__init__: {device.identifier: device.individual_address}
RECURSIVE DeviceTable(_, _, _)
DeviceTable(devices, i, acc) ==
    IF i > Len(devices) THEN acc
    ELSE With(DictSet(acc, devices[i].identifier, devices[i].individual_address),
              LAMBDA acc2 : DeviceTable(devices, i + 1, acc2))

\* _LocationLoader.load over every Locations (ETS4: Buildings) element.
LoadLocations(ets4, installation, devices) ==
    With(IF ets4 THEN "BuildingPart" ELSE "Space",
         LAMBDA element_name :
            With(FindAll(installation, IF ets4 THEN "Buildings" ELSE "Locations"),
                 LAMBDA sections :
                    With(Flatten([i \in 1..Len(sections) |->
                                     FindAll(sections[i], element_name)]),
                         LAMBDA nodes :
                            With(DeviceTable(devices, 1, <<>>),
                                 LAMBDA device_table :
                                    ParseSpaces(element_name, device_table, nodes,
                                                1, <<>>, <<>>)))))

(***************************************************************************)
(* loader/project_loader.py: ProjectLoader.load                            *)
(***************************************************************************)
\* knx_master_data.get_function_type_name, a lookup in the master data.
FunctionTypeName(function_type) == <<"function-type-name", function_type>>

\* next(ga.address for ga in group_address_list if ga.identifier == ref_id)
RECURSIVE NextAddress(_, _, _)
NextAddress(group_address_list, i, ref_id) ==
    IF i > Len(group_address_list) THEN Raise("StopIteration")
    ELSE IF group_address_list[i].identifier = ref_id
         THEN Ok(group_address_list[i].address)
         ELSE NextAddress(group_address_list, i + 1, ref_id)

\* One function of the loop at the end of ProjectLoader.load.
ResolveFunction(group_address_list, function) ==
    Try(Collect(LAMBDA ref :
                   Kept(Try(NextAddress(group_address_list, 1, ref.ref_id),
                            LAMBDA address : Ok([ref EXCEPT !.address = address]))),
                function.group_addresses, 1, <<>>),
        LAMBDA refs :
           Ok([function EXCEPT !.usage_text =
                                   IF function.function_type /= ""
                                   THEN FunctionTypeName(function.function_type)
                                   ELSE <<>>,
                               !.group_addresses = refs]))

\* ProjectLoader.load on the Installation element of 0.xml.
ProjectLoaderLoad(ets4, installation) ==
    With(LoadGroupAddresses(installation),
         LAMBDA group_address_list :
            Try(LoadTopology(ets4, installation),
                LAMBDA areas :
                   With(DevicesOf(areas),
                        LAMBDA devices :
                           Try(LoadLocations(ets4, installation, devices),
                               LAMBDA located :
                                  Try(Collect(LAMBDA f :
                                                 Kept(ResolveFunction(
                                                         group_address_list, f)),
                                              located.functions, 1, <<>>),
                                      LAMBDA functions :
                                         Ok([group_addresses |-> group_address_list,
                                             areas |-> areas,
                                             devices |-> devices,
                                             spaces |-> located.spaces,
                                             functions |-> functions]))))))

(***************************************************************************)
(* xml/parser.py: XMLParser.parse after self.load()                        *)
(***************************************************************************)
\* f"{device.individual_address}/{com_object.ref_id}"
ComObjectKey(device, com_object) == <<device.individual_address, com_object.ref_id>>

CommunicationObject(device, com_object) ==
    [name |-> com_object.text,
     device_address |-> device.individual_address,
     group_address_links |-> com_object.links]

\* The loop over device.com_object_instance_refs; acc carries the table of
\* communication objects and the device's list of keys.
RECURSIVE DeviceComObjects(_, _, _)
DeviceComObjects(device, i, acc) ==
    IF i > Len(device.com_object_instance_refs) THEN acc
    ELSE With(device.com_object_instance_refs[i],
              LAMBDA c :
                 With(IF c.links /= <<>>
                      THEN [communication_objects |->
                                DictSet(acc.communication_objects,
                                        ComObjectKey(device, c),
                                        CommunicationObject(device, c)),
                            device_com_objects |->
                                Append(acc.device_com_objects, ComObjectKey(device, c))]
                      ELSE acc,
                      LAMBDA acc2 : DeviceComObjects(device, i + 1, acc2)))

Device(device, device_com_objects) ==
    [name |-> IF device.name /= "" THEN device.name ELSE device.product_name,
     product_name |-> device.product_name,
     description |-> device.hardware_name,
     individual_address |-> device.individual_address,
     communication_object_ids |-> device_com_objects]

\* The loop over self.devices; acc carries communication_objects and
\* devices_dict.
RECURSIVE BuildDevices(_, _, _)
BuildDevices(devices, i, acc) ==
    IF i > Len(devices) THEN acc
    ELSE With(DeviceComObjects(devices[i], 1,
                  [communication_objects |-> acc.communication_objects,
                   device_com_objects |-> <<>>]),
              LAMBDA objs :
                 With([communication_objects |-> objs.communication_objects,
                       devices_dict |->
                           DictSet(acc.devices_dict, devices[i].individual_address,
                                   Device(devices[i], objs.device_com_objects))],
                      LAMBDA acc2 : BuildDevices(devices, i + 1, acc2)))

\* The list comprehension over communication_objects.items().
ComObjectIdsOf(communication_objects, identifier) ==
    DictKeys(SelectSeq(communication_objects,
                       LAMBDA kv : Contains(kv[2].group_address_links, identifier)))

RECURSIVE BuildGroupAddresses(_, _, _, _)
BuildGroupAddresses(group_addresses, i, communication_objects, acc) ==
    IF i > Len(group_addresses) THEN acc
    ELSE With(DictSet(acc, group_addresses[i].identifier,
                      [name |-> group_addresses[i].name,
                       identifier |-> group_addresses[i].identifier,
                       address |-> group_addresses[i].address,
                       communication_object_ids |->
                           ComObjectIdsOf(communication_objects,
                                          group_addresses[i].identifier),
                       description |-> group_addresses[i].description]),
              LAMBDA acc2 :
                 BuildGroupAddresses(group_addresses, i + 1,
                                     communication_objects, acc2))

\* lines_dict of one area, keyed by str(line.address).
RECURSIVE BuildLines(_, _, _)
BuildLines(lines, i, acc) ==
    IF i > Len(lines) THEN acc
    ELSE With(DictSet(acc, lines[i].address,
                      [name |-> lines[i].name,
                       description |-> lines[i].description,
                       devices |-> [k \in 1..Len(lines[i].devices) |->
                                       lines[i].devices[k].individual_address]]),
              LAMBDA acc2 : BuildLines(lines, i + 1, acc2))

\* topology_dict, keyed by str(area.address).
RECURSIVE BuildTopology(_, _, _)
BuildTopology(areas, i, acc) ==
    IF i > Len(areas) THEN acc
    ELSE With(DictSet(acc, areas[i].address,
                      [name |-> areas[i].name,
                       description |-> areas[i].description,
                       lines |-> BuildLines(areas[i].lines, 1, <<>>)]),
              LAMBDA acc2 : BuildTopology(areas, i + 1, acc2))

\* XMLParser.recursive_convert_spaces and the loop over a list of spaces.
RECURSIVE recursive_convert_spaces(_)
RECURSIVE ConvertSpaces(_, _, _)
ConvertSpaces(spaces, i, acc) ==
    IF i > Len(spaces) THEN acc
    ELSE With(DictSet(acc, spaces[i].name, recursive_convert_spaces(spaces[i])),
              LAMBDA acc2 : ConvertSpaces(spaces, i + 1, acc2))

recursive_convert_spaces(space) ==
    [type |-> space.space_type,
     devices |-> space.devices,
     spaces |-> ConvertSpaces(space.spaces, 1, <<>>)]

\* The KNXProject that XMLParser.parse returns.
KNXProject(l) ==
    With(BuildDevices(l.devices, 1, [communication_objects |-> <<>>,
                                     devices_dict |-> <<>>]),
         LAMBDA built :
            [communication_objects |-> built.communication_objects,
             topology |-> BuildTopology(l.areas, 1, <<>>),
             devices |-> built.devices_dict,
             group_addresses |->
                 BuildGroupAddresses(l.group_addresses, 1,
                                     built.communication_objects, <<>>),
             locations |-> ConvertSpaces(l.spaces, 1, <<>>)])

(***************************************************************************)
(* xml/parser.py: the enrichment pass of XMLParser.load                    *)
(***************************************************************************)
\* ComObjectInstanceRef.resolve_com_object_ref_id: the reference of the
\* com-object within the application program.
resolve_com_object_ref_id(com_object, application_program_ref) ==
    [com_object EXCEPT !.com_object_ref_id =
                           <<application_program_ref, com_object.ref_id>>]

\* One iteration of the loop over self.devices: the device as the iteration
\* leaves it and what it logged.
EnrichDevice(device, hw) ==
    IF ~DictHas(hw.products, device.product_ref)
    THEN [device |-> device,
          logged |-> << <<"Could not find hardware product for device",
                          device.individual_address, device.product_ref>> >>]
    ELSE With([device EXCEPT
                  !.product_name = DictGet(hw.products, device.product_ref).text,
                  !.hardware_name =
                      DictGet(hw.products, device.product_ref).hardware_name],
              LAMBDA d1 :
                 IF ~DictHas(hw.hardware_programs, d1.hardware_program_ref)
                 THEN [device |-> d1,
                       logged |-> << <<"Could not find application_program_ref for device",
                                       d1.individual_address,
                                       d1.hardware_program_ref>> >>]
                 ELSE With(DictGet(hw.hardware_programs, d1.hardware_program_ref),
                           LAMBDA application_program_ref :
                              [device |->
                                  [d1 EXCEPT
                                     !.application_program_ref =
                                         application_program_ref,
                                     !.com_object_instance_refs =
                                         [k \in 1..Len(@) |->
                                             resolve_com_object_ref_id(
                                                 @[k], application_program_ref)]],
                               logged |-> <<>>]))

\* A loop that ends at the first device without a match.
RECURSIVE EnrichDevices_StopAtMiss(_, _, _, _)
EnrichDevices_StopAtMiss(devices, i, hw, acc) ==
    IF i > Len(devices) THEN acc
    ELSE With(EnrichDevice(devices[i], hw),
              LAMBDA r :
                 IF r.logged /= <<>>
                 THEN [devices |-> Append(acc.devices, r.device)
                                      \o SubSeq(devices, i + 1, Len(devices)),
                       warnings |-> acc.warnings \o r.logged]
                 ELSE With([devices |-> Append(acc.devices, r.device),
                            warnings |-> acc.warnings \o r.logged],
                           LAMBDA acc2 :
                              EnrichDevices_StopAtMiss(devices, i + 1, hw, acc2)))

\* The loop over self.devices; acc carries the devices done and the log.
RECURSIVE EnrichDevices(_, _, _, _)
EnrichDevices(devices, i, hw, acc) ==
    IF i > Len(devices) THEN acc
    ELSE With(EnrichDevice(devices[i], hw),
              LAMBDA r :
                 With([devices |-> Append(acc.devices, r.device),
                       warnings |-> acc.warnings \o r.logged],
                      LAMBDA acc2 : EnrichDevices(devices, i + 1, hw, acc2)))

(***************************************************************************)
(* The project pipeline.  XMLParser.load is ProjectLoader.load followed by *)
(* the enrichment pass; the manufacturer and application-program loaders   *)
(* it also calls are outside this model.  The pass changes the devices in  *)
(* place; XMLParser.parse reads of a line's devices only their individual  *)
(* addresses, which the pass leaves alone.                                 *)
(***************************************************************************)
XMLParserLoad ==
    /\ stage = "input"
    /\ LET r == ProjectLoaderLoad(isEts4, document)
       IN  IF r.err /= "none"
           THEN /\ stage' = "failed"
                /\ error' = r.err
                /\ UNCHANGED <<loaded, warnings>>
           ELSE LET e == EnrichDevices(r.val.devices, 1, hardware,
                                       [devices |-> <<>>, warnings |-> <<>>])
                IN  /\ stage' = "loaded"
                    /\ loaded' = [r.val EXCEPT !.devices = e.devices]
                    /\ warnings' = e.warnings
                    /\ UNCHANGED error
    /\ UNCHANGED <<isEts4, document, project, hardware, sessionVars, linkVars>>

XMLParserParse ==
    /\ stage = "loaded"
    /\ project' = KNXProject(loaded)
    /\ stage' = "parsed"
    /\ UNCHANGED <<isEts4, document, loaded, error, hardware, warnings,
                   sessionVars, linkVars>>

NextProject == XMLParserLoad \/ XMLParserParse

\* 0.xml's Installation element with the three sections the loader reads.
Installation(group_addresses, areas, location_tag, spaces) ==
    Element("Installation",
            << Element("GroupAddresses", group_addresses),
               Element("Topology", areas),
               Element(location_tag, spaces) >>)

AreaElement(address, lines) ==
    [tag |-> "Area", children |-> lines, Address |-> address, Name |-> "area"]

\* A line; ETS6 puts its devices under a Segment child.
LineElement(address, devices, segment) ==
    [tag |-> "Line", Address |-> address, Name |-> "line",
     children |-> IF segment
                  THEN << [tag |-> "Segment", children |-> devices,
                           MediumTypeRefId |-> "MT-0"] >>
                  ELSE devices]

DeviceElement(address, id, com_objects) ==
    [tag |-> "DeviceInstance", Id |-> id, Address |-> address,
     children |-> << Element("ComObjectInstanceRefs", com_objects) >>]

\* A device without an individual address, such as a power supply.
UnaddressedDeviceElement(id) ==
    [tag |-> "DeviceInstance", Id |-> id, children |-> <<>>]

GroupAddressElement(id, address) ==
    [tag |-> "GroupAddress", children |-> <<>>, Id |-> id, Address |-> address,
     Name |-> "ga"]

(***************************************************************************)
(* SpecDevices: topologies of two areas and three lines whose lines hold   *)
(* addressed and unaddressed devices.  Nothing in the loader or the parser *)
(* rejects two devices of a line with the same Address, so the lines of    *)
(* the first area range over all lists, repeated addresses included.       *)
(***************************************************************************)
DeviceElements ==
    { UnaddressedDeviceElement("D-0"),
      DeviceElement(<<"1">>, "D-1", <<>>),
      DeviceElement(<<"1", "0">>, "D-10", <<>>) }

DeviceLists == SeqsUpTo(DeviceElements, MaxDevices)

InitDevices ==
    /\ SessionIdle
    /\ LinksIdle
    /\ isEts4 = FALSE
    /\ \E d11, d12 \in DeviceLists :
       \E d21 \in { <<>>, << DeviceElement(<<"1">>, "D-1", <<>>) >> } :
       \E segment \in BOOLEAN :
          document = Installation(<<>>,
                        << AreaElement(<<"1">>,
                                       << LineElement(<<"1">>, d11, segment),
                                          LineElement(<<"2">>, d12, segment) >>),
                           AreaElement(<<"2">>,
                                       << LineElement(<<"1">>, d21, segment) >>) >>,
                        "Locations", <<>>)
    /\ stage = "input"
    /\ loaded = NothingLoaded
    /\ error = "none"
    /\ project = NoProject
    /\ hardware = NoHardwareFiles
    /\ warnings = <<>>

SpecDevices == InitDevices /\ [][NextProject]_vars

(***************************************************************************)
(* SpecComObjects: one device whose com-objects carry their links in the   *)
(* project's dialect, and the two group addresses they link to.            *)
(***************************************************************************)
ComObjectElement(children) ==
    [tag |-> "ComObjectInstanceRef", children |-> children, RefId |-> "O", Text |-> "t"]

ComObjectWithLinks(links) ==
    [tag |-> "ComObjectInstanceRef", children |-> <<>>, RefId |-> "O", Text |-> "t",
     Links |-> links]

Connector(tag, ref) == [tag |-> tag, children |-> <<>>, GroupAddressRefId |-> ref]

ComObjectElements(e4) ==
    IF e4
    THEN { ComObjectElement(<<>>),
           ComObjectElement(<< Element("Connectors", <<>>) >>),
           ComObjectElement(<< Element("Connectors",
                                  << Connector("Send", <<"P", "_", "g">>) >>) >>),
           ComObjectElement(<< Element("Connectors",
                                  << Connector("Receive", <<"P", "_", "h">>),
                                     Connector("Send", <<"P", "_", "g">>) >>) >>) }
    ELSE { ComObjectElement(<<>>),
           ComObjectWithLinks(<<>>),
           ComObjectWithLinks(<<"g">>),
           ComObjectWithLinks(<<"g", " ", "h">>) }

RefIds == <<"O-1", "O-2", "O-3", "O-4">>

\* Each com-object of a device refers to its own template.
Numbered(com_objects) ==
    [i \in 1..Len(com_objects) |-> [com_objects[i] EXCEPT !.RefId = RefIds[i]]]

InitComObjects ==
    /\ SessionIdle
    /\ LinksIdle
    /\ isEts4 \in BOOLEAN
    /\ \E objs \in SeqsUpTo(ComObjectElements(isEts4), MaxComObjects) :
       \E objs2 \in SeqsUpTo(ComObjectElements(isEts4), 1) :
          document = Installation(
                        << GroupAddressElement(<<"g">>, <<"1">>),
                           GroupAddressElement(<<"h">>, <<"2">>) >>,
                        << AreaElement(<<"1">>,
                             << LineElement(<<"1">>,
                                  << DeviceElement(<<"1">>, "D-1", Numbered(objs)),
                                     DeviceElement(<<"2">>, "D-2", Numbered(objs2)) >>,
                                  FALSE) >>) >>,
                        IF isEts4 THEN "Buildings" ELSE "Locations", <<>>)
    /\ stage = "input"
    /\ loaded = NothingLoaded
    /\ error = "none"
    /\ project = NoProject
    /\ hardware = NoHardwareFiles
    /\ warnings = <<>>

SpecComObjects == InitComObjects /\ [][NextProject]_vars

(***************************************************************************)
(* SpecFunctions: one space with functions whose group-address references  *)
(* name group addresses of the project, or none of them.                   *)
(***************************************************************************)
GroupAddressRefElement(ref_id) ==
    [tag |-> "GroupAddressRef", children |-> <<>>, Id |-> "GF", Name |-> "ref",
     RefId |-> <<"P-1">> \o <<"_">> \o ref_id]

FunctionIds == <<"F-1", "F-2", "F-3">>

FunctionElement(i, refs) ==
    [tag |-> "Function", children |-> refs, Id |-> <<"P-1", "_", FunctionIds[i]>>,
     Name |-> "function", Type |-> "FT-1"]

RefElements ==
    { GroupAddressRefElement(<<"g">>), GroupAddressRefElement(<<"h">>),
      GroupAddressRefElement(<<"x">>) }

GroupAddressLists ==
    { <<>>,
      << GroupAddressElement(<<"g">>, <<"1">>) >>,
      << GroupAddressElement(<<"h">>, <<"2">>) >>,
      << GroupAddressElement(<<"g">>, <<"1">>), GroupAddressElement(<<"h">>, <<"2">>) >>,
      << GroupAddressElement(<<"h">>, <<"2">>), GroupAddressElement(<<"g">>, <<"1">>) >> }

FunctionLists ==
    { [i \in 1..Len(refs) |-> FunctionElement(i, refs[i])] :
        refs \in SeqsUpTo(SeqsUpTo(RefElements, MaxRefs), MaxFunctions) }

InitFunctions ==
    /\ SessionIdle
    /\ LinksIdle
    /\ isEts4 = FALSE
    /\ \E gas \in GroupAddressLists : \E fs \in FunctionLists :
          document = Installation(gas, <<>>, "Locations",
                        << [tag |-> "Space", children |-> fs, Id |-> "S-1",
                            Name |-> "room", Type |-> "Room"] >>)
    /\ stage = "input"
    /\ loaded = NothingLoaded
    /\ error = "none"
    /\ project = NoProject
    /\ hardware = NoHardwareFiles
    /\ warnings = <<>>

SpecFunctions == InitFunctions /\ [][NextProject]_vars

(***************************************************************************)
(* SpecSpaces: a building whose spaces nest MaxDepth levels deep; a space  *)
(* may hold a reference to a device of the topology and a function, and    *)
(* sibling spaces may have the same name.                                  *)
(***************************************************************************)
SpaceElement(name, type, children) ==
    [tag |-> "Space", children |-> children, Id |-> "S", Name |-> name,
     Type |-> type]

DeviceInstanceRefElement(ref_id) ==
    [tag |-> "DeviceInstanceRef", children |-> <<>>, RefId |-> ref_id]

SpaceNames == {"Room101", "Room102"}

\* What a space holds besides its sub-spaces.
SpaceContents ==
    { <<>>,
      << DeviceInstanceRefElement("D-1"), FunctionElement(1, <<>>) >> }

\* The space elements that nest at most depth levels deep.
RECURSIVE SpaceElements(_)
SpaceElements(depth) ==
    IF depth = 0 THEN {}
    ELSE { SpaceElement(name, "Room", content \o spaces) :
              name \in SpaceNames, content \in SpaceContents,
              spaces \in SeqsUpTo(SpaceElements(depth - 1), MaxSpaces) }

InitSpaces ==
    /\ SessionIdle
    /\ LinksIdle
    /\ isEts4 = FALSE
    /\ \E floors \in SeqsUpTo(SpaceElements(MaxDepth - 1), MaxSpaces) :
          document = Installation(<<>>,
                        << AreaElement(<<"1">>,
                             << LineElement(<<"1">>,
                                  << DeviceElement(<<"1">>, "D-1", <<>>) >>,
                                  FALSE) >>) >>,
                        "Locations",
                        << SpaceElement("Building", "Building", floors) >>)
    /\ stage = "input"
    /\ loaded = NothingLoaded
    /\ error = "none"
    /\ project = NoProject
    /\ hardware = NoHardwareFiles
    /\ warnings = <<>>

SpecSpaces == InitSpaces /\ [][NextProject]_vars

(***************************************************************************)
(* SpecEnrich: devices of one line that name a product and a hardware      *)
(* program, and hardware files that know some of these or none.            *)
(***************************************************************************)
DeviceIds == <<"D-1", "D-2", "D-3">>

\* The i-th device of the line, with one linked com-object.
ProductDeviceElement(i, product_ref, hardware_program_ref) ==
    [tag |-> "DeviceInstance", Id |-> DeviceIds[i], Address |-> <<DigitChars[i + 1]>>,
     ProductRefId |-> product_ref, Hardware2ProgramRefId |-> hardware_program_ref,
     children |-> << Element("ComObjectInstanceRefs",
                             << ComObjectWithLinks(<<"g">>) >>) >>]

ProductRefs == {"PR-1", "PR-9"}

HardwareProgramRefs == {"HP-1", "HP-9"}

ProductDeviceLists ==
    { [i \in 1..Len(refs) |-> ProductDeviceElement(i, refs[i][1], refs[i][2])] :
         refs \in SeqsUpTo(ProductRefs \X HardwareProgramRefs, MaxDevices) }

\* What HardwareLoader.load found in the hardware files of the archive.
HardwareFiles ==
    { [products |-> products, hardware_programs |-> programs] :
         products \in { <<>>, << <<"PR-1", [text |-> "Switch",
                                           hardware_name |-> "Switch HW"]>> >> },
         programs \in { <<>>, << <<"HP-1", "AP-1">> >> } }

InitEnrich ==
    /\ SessionIdle
    /\ LinksIdle
    /\ isEts4 = FALSE
    /\ \E devices \in ProductDeviceLists :
          document = Installation(<< GroupAddressElement(<<"g">>, <<"1">>) >>,
                        << AreaElement(<<"1">>,
                             << LineElement(<<"1">>, devices, FALSE) >>) >>,
                        "Locations", <<>>)
    /\ stage = "input"
    /\ loaded = NothingLoaded
    /\ error = "none"
    /\ project = NoProject
    /\ hardware \in HardwareFiles
    /\ warnings = <<>>

SpecEnrich == InitEnrich /\ [][NextProject]_vars

(***************************************************************************)
(* SpecIndex: two devices whose com-objects are linked to the group        *)
(* addresses g and h.  Nothing in the loader or the parser rejects two     *)
(* com-objects of a device with the same RefId.                            *)
(***************************************************************************)
LinkedComObjects ==
    { [ComObjectWithLinks(links) EXCEPT !.RefId = ref_id] :
         links \in { <<"g">>, <<"h">>, <<"g", " ", "h">> },
         ref_id \in {"O-1", "O-2"} }

InitIndex ==
    /\ SessionIdle
    /\ LinksIdle
    /\ isEts4 = FALSE
    /\ \E objs \in SeqsUpTo(LinkedComObjects, MaxComObjects) :
       \E objs2 \in SeqsUpTo(LinkedComObjects, 1) :
          document = Installation(
                        << GroupAddressElement(<<"g">>, <<"1">>),
                           GroupAddressElement(<<"h">>, <<"2">>) >>,
                        << AreaElement(<<"1">>,
                             << LineElement(<<"1">>,
                                  << DeviceElement(<<"1">>, "D-1", objs),
                                     DeviceElement(<<"2">>, "D-2", objs2) >>,
                                  FALSE) >>) >>,
                        "Locations", <<>>)
    /\ stage = "input"
    /\ loaded = NothingLoaded
    /\ error = "none"
    /\ project = NoProject
    /\ hardware = NoHardwareFiles
    /\ warnings = <<>>

SpecIndex == InitIndex /\ [][NextProject]_vars

(***************************************************************************)
(* SpecAttributes: one group address and one area with one line and one    *)
(* device, each element with or without its Address, Name and Description. *)
(***************************************************************************)
\* An element with the attributes named in present, and no others.
WithAttributes(tag, children, present) ==
    [tag |-> tag, children |-> children]
        @@ [a \in present |->
               IF a = "Address" THEN <<"1">>
               ELSE IF a = "Name" THEN "name" ELSE "description"]

InitAttributes ==
    /\ SessionIdle
    /\ LinksIdle
    /\ isEts4 = FALSE
    /\ \E of_area, of_line \in SUBSET {"Address", "Name", "Description"} :
       \E of_device, of_group_address \in SUBSET {"Name", "Description"} :
          document = Installation(
              << WithAttributes("GroupAddress", <<>>, of_group_address)
                    @@ [Id |-> <<"g">>, Address |-> <<"1">>] >>,
              << WithAttributes("Area",
                    << WithAttributes("Line",
                          << WithAttributes("DeviceInstance", <<>>,
                                            of_device \cup {"Address"})
                                @@ [Id |-> "D-1"] >>,
                          of_line) >>,
                    of_area) >>,
              "Locations", <<>>)
    /\ stage = "input"
    /\ loaded = NothingLoaded
    /\ error = "none"
    /\ project = NoProject
    /\ hardware = NoHardwareFiles
    /\ warnings = <<>>

SpecAttributes == InitAttributes /\ [][NextProject]_vars

(***************************************************************************)
(* SpecLinks: one com-object, with the same ordered links, written in the  *)
(* Links attribute and as Send/Receive connectors.                         *)
(***************************************************************************)
CreateEts4 ==
    /\ instanceEts4 = NotRun
    /\ instanceEts4' = _create_com_object_instance(TRUE, comObjectEts4)
    /\ UNCHANGED <<comObjectEts4, comObjectEts5, instanceEts5, functionNode,
                   parsedFunction, sessionVars, projectVars>>

CreateEts5 ==
    /\ instanceEts5 = NotRun
    /\ instanceEts5' = _create_com_object_instance(FALSE, comObjectEts5)
    /\ UNCHANGED <<comObjectEts4, comObjectEts5, instanceEts4, functionNode,
                   parsedFunction, sessionVars, projectVars>>

NextLinks == CreateEts4 \/ CreateEts5

\* Identifiers of group addresses: a letter, then letters and underscores.
LinkIds == { <<"g">> \o rest : rest \in SeqsUpTo({"g", "_"}, MaxIdLen - 1) }

RECURSIVE Join(_, _)
Join(strings, sep) ==
    IF Len(strings) = 1 THEN strings[1]
    ELSE strings[1] \o <<sep>> \o Join(Tail(strings), sep)

\* The first n_send links as Send connectors, the others as Receive.
Connectors(ids, n_send) ==
    Element("Connectors",
            [i \in 1..Len(ids) |->
                Connector(IF i <= n_send THEN "Send" ELSE "Receive",
                          <<"P-1", "_">> \o ids[i])])

InitLinks ==
    /\ SessionIdle
    /\ ProjectIdle
    /\ \E ids \in SeqsUpTo(LinkIds, MaxLinks) \ { <<>> } :
       \E n_send \in 0..Len(ids) :
          /\ comObjectEts4 = ComObjectElement(<< Connectors(ids, n_send) >>)
          /\ comObjectEts5 = ComObjectWithLinks(Join(ids, " "))
    /\ instanceEts4 = NotRun
    /\ instanceEts5 = NotRun
    /\ NoFunction

SpecLinks == InitLinks /\ [][NextLinks]_vars

(***************************************************************************)
(* SpecFunctionIds: one Function element whose Id and whose references'    *)
(* RefIds are a project-id segment, the delimiter, and an identifier that  *)
(* may itself hold the delimiter.                                          *)
(***************************************************************************)
ParseFunction ==
    /\ parsedFunction = NotRun
    /\ parsedFunction' = parse_functions(functionNode)
    /\ UNCHANGED <<functionNode, comObjectEts4, comObjectEts5, instanceEts4,
                   instanceEts5, sessionVars, projectVars>>

\* Identifiers of functions: F, then digits and underscores.
RawFunctionIds == { <<"F">> \o rest : rest \in SeqsUpTo({"1", "_"}, MaxIdLen - 1) }

InitFunctionIds ==
    /\ SessionIdle
    /\ ProjectIdle
    /\ NoComObject
    /\ \E id \in RawFunctionIds : \E ref_ids \in SeqsUpTo(LinkIds, MaxRefs) :
          functionNode =
              [tag |-> "Function", Id |-> <<"P-1", "_">> \o id, Name |-> "function",
               Type |-> "FT-1",
               children |-> [i \in 1..Len(ref_ids) |->
                                GroupAddressRefElement(ref_ids[i])]]
    /\ parsedFunction = NotRun

SpecFunctionIds == InitFunctionIds /\ [][ParseFunction]_vars

(***************************************************************************)
(* Properties of the decoder session                                       *)
(***************************************************************************)
\* The container's own description, read off the entry list.
SignatureAt(i) ==
    /\ Len(entries[i]) >= 2
    /\ entries[i][1] = "P-"
    /\ entries[i][Len(entries[i])] = ".signature"

HasSignatureEntry == \E i \in 1..Len(entries) : SignatureAt(i)

FirstSignature ==
    CHOOSE i \in 1..Len(entries) :
        SignatureAt(i) /\ \A j \in 1..(i - 1) : ~SignatureAt(j)

FirstSignatureStem == SubSeq(entries[FirstSignature], 1, Len(entries[FirstSignature]) - 1)

ProtectedContainer ==
    /\ HasSignatureEntry
    /\ \E i \in 1..Len(entries) : entries[i] = Append(FirstSignatureStem, ".zip")

WrongPassword == Truthy(password) /\ password /= TruePassword

C2_NoSessionOnWrongPassword ==
    (ProtectedContainer /\ WrongPassword) => session = NoSession

\* C3: when the session is over, every archive and stream acquired during it
\* is closed.
C3_AllClosedAtReturn == pc = "done" => open = {}

\* C4: without an entry P-*.signature extract fails with ProjectNotFound and
\* yields no session; otherwise the project id is the first such entry's name
\* without the .signature suffix.
C4_ProjectId ==
    pc /= "start" =>
        IF ~HasSignatureEntry
        THEN outcome = "ProjectNotFound" /\ session = NoSession
        ELSE projectId = FirstSignatureStem /\ outcome /= "ProjectNotFound"

C4_Witness ==
    /\ pc /= "start"
    /\ \E i, j \in 1..Len(entries) :
          /\ i < j
          /\ SignatureAt(i) /\ SignatureAt(j)
          /\ entries[i] /= entries[j]
          /\ ~SignatureAt(1)
    /\ projectId = FirstSignatureStem

\* C5: on a protected container with a non-empty password exactly one
\* key-derivation path is taken, the derived-key path iff the marker is in
\* one of the first two lines of knx_master.xml and the legacy path otherwise,
\* whatever the password is and whether or not it is accepted.
C5_PathByMarker ==
    (ProtectedContainer /\ Truthy(password) /\ pc /= "start") =>
        IF master[1] \/ master[2]
        THEN /\ pathsTried = <<"ets6">>
             /\ archivePwd = <<"base64", "pbkdf2-hmac-sha256", "utf-16-le", password>>
        ELSE /\ pathsTried = <<"legacy">>
             /\ archivePwd = <<"utf-8", password>>

C5_Witness ==
    /\ ProtectedContainer
    /\ WrongPassword
    /\ master[2]
    /\ pc = "done"
    /\ pathsTried = <<"ets6">>
    /\ outcome = "InvalidPassword"

\* C6: a container with a signature entry and no <project-id>.zip entry
\* yields a session for every password argument, never InvalidPassword, and
\* the streams opened are <project-id>/0.xml and <project-id>/project.xml of
\* the outer archive.
C6_UnprotectedSession ==
    (HasSignatureEntry /\ ~ProtectedContainer /\ pc /= "start") =>
        /\ session = [root |-> "outer", project_archive |-> "outer",
                      project_relative_path |-> Append(FirstSignatureStem, "/")]
        /\ outcome /= "InvalidPassword"
        /\ pending /= "RuntimeError"
        /\ \A k \in 1..Len(opened) :
              opened[k] = <<"outer", FirstSignatureStem \o
                              <<"/", IF k = 1 THEN "0.xml" ELSE "project.xml">> >>
        /\ (pc = "done" /\ docState = "good") =>
              (outcome = "ok" /\ Len(opened) = 2)

C6_Witness ==
    /\ HasSignatureEntry
    /\ ~ProtectedContainer
    /\ \E i \in 1..Len(entries) : EndsWith(entries[i], <<".zip">>)
    /\ password = Absent
    /\ pc = "done"
    /\ outcome = "ok"
    /\ Len(opened) = 2

(***************************************************************************)
(* Properties of the project pipeline                                      *)
(***************************************************************************)
\* The device elements of the source topology, as <<area, line, device>>
\* positions, and what the source says about each.
SourceAreas == FindAll(FindAll(document, "Topology")[1], "Area")

SourceLineDevices(a, l) ==
    DescendantsIn(SourceAreas[a].children[l].children, "DeviceInstance")

SourceDevices ==
    UNION { UNION { { <<a, l, k>> : k \in 1..Len(SourceLineDevices(a, l)) } :
                    l \in 1..Len(SourceAreas[a].children) } :
            a \in 1..Len(SourceAreas) }

SourceDevice(t) == SourceLineDevices(t[1], t[2])[t[3]]

AddressedSourceDevices == { t \in SourceDevices : "Address" \in DOMAIN SourceDevice(t) }

SourceIndividualAddress(t) ==
    << PyInt(SourceAreas[t[1]].Address).val,
       PyInt(SourceAreas[t[1]].children[t[2]].Address).val,
       SourceDevice(t).Address >>

\* No two addressed device elements of the source have the same individual
\* address.
UniqueIndividualAddresses ==
    \A t, u \in AddressedSourceDevices :
        SourceIndividualAddress(t) = SourceIndividualAddress(u) => t = u

\* The device table has exactly one entry per device element with an Address
\* attribute, keyed by that device's individual address, and as many entries
\* as there are such elements.
DeviceTableMatchesSource ==
    /\ Len(project.devices) = Cardinality(AddressedSourceDevices)
    /\ \A t \in AddressedSourceDevices :
          /\ Cardinality({ i \in 1..Len(project.devices) :
                             project.devices[i][1] = SourceIndividualAddress(t) }) = 1
          /\ \A i \in 1..Len(project.devices) :
                project.devices[i][1] = SourceIndividualAddress(t)
                   => project.devices[i][2].individual_address
                         = SourceIndividualAddress(t)
    /\ \A i \in 1..Len(project.devices) :
          \E t \in AddressedSourceDevices :
             project.devices[i][1] = SourceIndividualAddress(t)

\* C7 (as amended): for every source topology whose addressed devices have
\* pairwise distinct individual addresses, the device table has exactly one
\* entry per device element with an Address attribute, keyed by that device's
\* individual address, and as many entries as there are such elements; device
\* elements without an Address give no entry, and the load never fails.
C7_DeviceTable ==
    /\ stage /= "failed"
    /\ (stage = "parsed" /\ UniqueIndividualAddresses) => DeviceTableMatchesSource

\* C7 (as stated): the same for every source topology, also one in which two
\* devices of a line carry the same Address.
C7_DeviceTableAnyTopology ==
    /\ stage /= "failed"
    /\ stage = "parsed" => DeviceTableMatchesSource

C7_Witness ==
    /\ stage = "parsed"
    /\ UniqueIndividualAddresses
    /\ SourceDevices \ AddressedSourceDevices /= {}
    /\ Len(project.devices) >= 3
    /\ \E t \in AddressedSourceDevices : t[3] = 2

\* C8: every com-object that is kept - in a device's list and in the
\* communication-object table - has a non-empty list of non-empty link
\* identifiers.
C8_RetainedHaveLinks ==
    stage = "parsed" =>
        /\ \A d \in 1..Len(loaded.devices) :
              \A c \in 1..Len(loaded.devices[d].com_object_instance_refs) :
                 LET links == loaded.devices[d].com_object_instance_refs[c].links
                 IN  links /= <<>> /\ \A k \in 1..Len(links) : links[k] /= <<>>
        /\ \A i \in 1..Len(project.communication_objects) :
              LET links == project.communication_objects[i][2].group_address_links
              IN  links /= <<>> /\ \A k \in 1..Len(links) : links[k] /= <<>>

\* C9: the load either leaves every GroupAddressRef of every function with a
\* non-empty address, that of the group address its ref_id names, or fails
\* with UnresolvedReference and with no other error.
C9_ResolvedOrUnresolvedReference ==
    /\ stage = "failed" => error = "UnresolvedReference"
    /\ stage \in {"loaded", "parsed"} =>
          \A f \in 1..Len(loaded.functions) :
             \A r \in 1..Len(loaded.functions[f].group_addresses) :
                LET ref == loaded.functions[f].group_addresses[r]
                IN  /\ ref.address /= <<>>
                    /\ \E g \in 1..Len(loaded.group_addresses) :
                          /\ loaded.group_addresses[g].identifier = ref.ref_id
                          /\ loaded.group_addresses[g].address = ref.address

(***************************************************************************)
(* Properties of the link dialects                                         *)
(***************************************************************************)
\* C10: the link list read from the Links attribute and the link list read
\* from the Send/Receive connectors of the same com-object are the same
\* identifiers in the same order.
C10_DialectsAgree ==
    (instanceEts4.err /= "not-run" /\ instanceEts5.err /= "not-run") =>
        /\ instanceEts4.err = "none" /\ instanceEts4.keep
        /\ instanceEts5.err = "none" /\ instanceEts5.keep
        /\ instanceEts4.val.links = instanceEts5.val.links

\* The function list of a node of the output location tree.
HasFunctionList(node) == "functions" \in DOMAIN node

\* Every space of a list of parsed spaces has its node, under its name, in a
\* dict of the output tree, with the same devices and functions, and so have
\* its sub-spaces.
RECURSIVE SpacesCarried(_, _)
SpacesCarried(spaces, out) ==
    \A i \in 1..Len(spaces) :
        /\ DictHas(out, spaces[i].name)
        /\ DictGet(out, spaces[i].name).devices = spaces[i].devices
        /\ HasFunctionList(DictGet(out, spaces[i].name))
        /\ DictGet(out, spaces[i].name).functions = spaces[i].functions
        /\ SpacesCarried(spaces[i].spaces, DictGet(out, spaces[i].name).spaces)

\* C11: every space of the parsed space tree, at any depth, has a node at the
\* same path of names in the output location tree, and that node carries the
\* space's device addresses and its function identifiers unchanged.
C11_SpacesCarried ==
    stage = "parsed" => SpacesCarried(loaded.spaces, project.locations)

\* The devices as ProjectLoader.load built them, before the enrichment pass.
DevicesBefore == ProjectLoaderLoad(isEts4, document).val.devices

ProductMatched(device) == DictHas(hardware.products, device.product_ref)

ProgramMatched(device) ==
    DictHas(hardware.hardware_programs, device.hardware_program_ref)

Matched(device) == ProductMatched(device) /\ ProgramMatched(device)

\* The pass run on the devices that have both matches only.
PassWithoutUnmatched ==
    EnrichDevices(SelectSeq(DevicesBefore, Matched), 1, hardware,
                  [devices |-> <<>>, warnings |-> <<>>])

\* C12: a device without a product match or without a hardware-program match
\* makes the pass log a warning and raise nothing; the device stays in the
\* device list and in the device table, its product fields empty when the
\* product is unmatched and its application program empty when that is
\* unmatched; the other devices end as the pass leaves them when it is run
\* without the unmatched ones.
C12_MissIsLocal ==
    /\ stage /= "failed"
    /\ stage \in {"loaded", "parsed"} =>
          /\ Len(loaded.devices) = Len(DevicesBefore)
          /\ \A i \in 1..Len(loaded.devices) :
                /\ loaded.devices[i].individual_address
                      = DevicesBefore[i].individual_address
                /\ ~Matched(loaded.devices[i]) =>
                      \E w \in 1..Len(warnings) :
                         warnings[w][2] = loaded.devices[i].individual_address
                /\ ~ProductMatched(loaded.devices[i]) =>
                      /\ loaded.devices[i].product_name = ""
                      /\ loaded.devices[i].hardware_name = ""
                /\ ~ProgramMatched(loaded.devices[i]) =>
                      loaded.devices[i].application_program_ref = ""
          /\ Len(warnings) = Len(SelectSeq(loaded.devices, LAMBDA d : ~Matched(d)))
          /\ SelectSeq(loaded.devices, Matched) = PassWithoutUnmatched.devices
    /\ stage = "parsed" =>
          \A i \in 1..Len(loaded.devices) :
             /\ DictHas(project.devices, loaded.devices[i].individual_address)
             /\ DictGet(project.devices, loaded.devices[i].individual_address).product_name
                   = loaded.devices[i].product_name
             /\ DictGet(project.devices, loaded.devices[i].individual_address).description
                   = loaded.devices[i].hardware_name

\* An unmatched device is followed by a device that has both matches and was
\* enriched.
C12_Witness ==
    /\ stage = "parsed"
    /\ Len(loaded.devices) = 2
    /\ ~Matched(loaded.devices[1])
    /\ Matched(loaded.devices[2])
    /\ loaded.devices[2].application_program_ref = "AP-1"
    /\ loaded.devices[2].com_object_instance_refs[1].com_object_ref_id /= <<>>
    /\ Len(warnings) = 1

\* The com-object keys that occur anywhere in the output.
OutputKeys ==
    { project.communication_objects[i][1] :
         i \in 1..Len(project.communication_objects) }
    \cup UNION { { project.group_addresses[g][2].communication_object_ids[k] :
                     k \in 1..Len(project.group_addresses[g][2].communication_object_ids) } :
                 g \in 1..Len(project.group_addresses) }

\* The reverse index of a group address holds a key exactly when the key's
\* table entry links to that group address.
ReverseIndexAgrees ==
    \A g \in 1..Len(project.group_addresses) : \A key \in OutputKeys :
        Contains(project.group_addresses[g][2].communication_object_ids, key)
        <=> /\ DictHas(project.communication_objects, key)
            /\ Contains(DictGet(project.communication_objects, key).group_address_links,
                        project.group_addresses[g][2].identifier)

\* The keys of a device's list are table keys that begin with the device's
\* individual address, and none is listed twice.
DeviceKeysAgree ==
    \A d \in 1..Len(project.devices) :
        \A i \in 1..Len(project.devices[d][2].communication_object_ids) :
            /\ DictHas(project.communication_objects,
                       project.devices[d][2].communication_object_ids[i])
            /\ Len(project.devices[d][2].communication_object_ids[i]) = 2
            /\ project.devices[d][2].communication_object_ids[i][1]
                  = project.devices[d][2].individual_address
            /\ \A j \in 1..Len(project.devices[d][2].communication_object_ids) :
                  project.devices[d][2].communication_object_ids[j]
                     = project.devices[d][2].communication_object_ids[i] => j = i

\* C13: in every output the reverse index of each group address agrees with
\* the communication-object table, and every key of a device's list is a
\* table key of the form <device individual address>/<ref id> that the list
\* holds once.
C13_IndexAgrees ==
    stage = "parsed" => (ReverseIndexAgrees /\ DeviceKeysAgree)

\* What follows the first delimiter of a raw identifier.
AfterFirstDelimiter(raw) ==
    SubSeq(raw, (CHOOSE i \in 1..Len(raw) :
                    raw[i] = "_" /\ \A j \in 1..(i - 1) : raw[j] /= "_") + 1,
           Len(raw))

\* C14: the identifier of a parsed function, and the ref_id of each of its
\* group-address references, is everything that follows the first "_" of the
\* raw identifier, further "_" included.
C14_SplitOnFirstDelimiter ==
    parsedFunction /= NotRun =>
        /\ parsedFunction.err = "none"
        /\ parsedFunction.val.identifier = AfterFirstDelimiter(functionNode.Id)
        /\ Len(parsedFunction.val.group_addresses) = Len(functionNode.children)
        /\ \A i \in 1..Len(functionNode.children) :
              parsedFunction.val.group_addresses[i].ref_id
                 = AfterFirstDelimiter(functionNode.children[i].RefId)

\* The elements of the source that the attribute claim is about.
SourceArea == SourceAreas[1]

SourceLine == SourceArea.children[1]

SourceGroupAddress == FindAll(document, "GroupAddresses")[1].children[1]

\* The field of a loaded entity is the attribute's value, and the empty
\* string when the element has no such attribute.
DefaultsToEmpty(element, attribute, field) ==
    field = IF HasAttr(element, attribute) THEN element[attribute] ELSE ""

\* C15: an area or line element without Address ends the load with an error
\* and nothing loaded; otherwise the load does not fail, and a missing Name
\* or Description of an area, line, device or group address leaves that
\* field as the empty string.
C15_AddressRequiredRestOptional ==
    IF ~HasAttr(SourceArea, "Address") \/ ~HasAttr(SourceLine, "Address")
    THEN stage /= "input" =>
            /\ stage = "failed"
            /\ error /= "none"
            /\ loaded = NothingLoaded
            /\ project = NoProject
    ELSE /\ stage /= "failed"
         /\ stage \in {"loaded", "parsed"} =>
               /\ DefaultsToEmpty(SourceArea, "Name", loaded.areas[1].name)
               /\ DefaultsToEmpty(SourceArea, "Description",
                                  loaded.areas[1].description)
               /\ DefaultsToEmpty(SourceLine, "Name", loaded.areas[1].lines[1].name)
               /\ DefaultsToEmpty(SourceLine, "Description",
                                  loaded.areas[1].lines[1].description)
               /\ DefaultsToEmpty(SourceLine.children[1], "Name",
                                  loaded.devices[1].name)
               /\ DefaultsToEmpty(SourceLine.children[1], "Description",
                                  loaded.devices[1].description)
               /\ DefaultsToEmpty(SourceGroupAddress, "Name",
                                  loaded.group_addresses[1].name)
               /\ DefaultsToEmpty(SourceGroupAddress, "Description",
                                  loaded.group_addresses[1].description)

====
